---- MODULE Spec2Model ----
(***************************************************************************)
(* Model of the rendojobs backend: the Telegram Mini App login flow        *)
(* (validateTelegramData and POST /api/telegram-login), the session token  *)
(* authenticator (GET /api/protected, authenticateToken) in the three      *)
(* revisions of the server held in src/index.js, src/unnamed/part_000 and  *)
(* src/unnamed/part_001.                                                   *)
(*                                                                         *)
(* JavaScript strings are TLA+ strings and are processed character by      *)
(* character.  HMAC-SHA256 and the JWT signature are modelled symbolically *)
(* as collision-free terms over their key and message.                     *)
(***************************************************************************)
EXTENDS Naturals, Sequences, FiniteSets, TLC

(***************************************************************************)
(* Bounds of the model.                                                    *)
(***************************************************************************)
\* number of login requests that may be in flight together
NumReqs == 2
\* last instant of the clock
MaxClock == 9
\* number of fields (pairs other than hash) of a payload given to the verifier
MaxFields == 2

(***************************************************************************)
(* JavaScript strings.                                                     *)
(***************************************************************************)
CharAt(s, i) == SubSeq(s, i, i)

\* the least element of a non-empty set of numbers
SetMin(S) == CHOOSE m \in S : \A j \in S : m <= j

\* 1-based position of the first character of s that is in cs, 0 when there
\* is none
FirstOf(s, cs) ==
  LET at == { i \in 1..Len(s) : CharAt(s, i) \in cs }
  IN IF at = {} THEN 0 ELSE SetMin(at)

\* String.prototype.indexOf for a character, 1-based, 0 when absent
IndexOf(s, c) == FirstOf(s, {c})

RECURSIVE Split(_, _)
\* String.prototype.split on a one-character separator
Split(s, sep) ==
  LET i == IndexOf(s, sep)
  IN IF i = 0 THEN <<s>>
     ELSE <<SubSeq(s, 1, i - 1)>> \o Split(SubSeq(s, i + 1, Len(s)), sep)

RECURSIVE Join(_, _)
\* Array.prototype.join
Join(ss, sep) ==
  IF Len(ss) = 0 THEN ""
  ELSE IF Len(ss) = 1 THEN ss[1]
  ELSE ss[1] \o sep \o Join(Tail(ss), sep)

WhiteSpace == {" ", "\n", "\t", "\r"}

RECURSIVE TrimStart(_)
TrimStart(s) ==
  IF Len(s) > 0 /\ CharAt(s, 1) \in WhiteSpace
  THEN TrimStart(SubSeq(s, 2, Len(s))) ELSE s

RECURSIVE TrimEnd(_)
TrimEnd(s) ==
  IF Len(s) > 0 /\ CharAt(s, Len(s)) \in WhiteSpace
  THEN TrimEnd(SubSeq(s, 1, Len(s) - 1)) ELSE s

\* String.prototype.trim
Trim(s) == TrimEnd(TrimStart(s))

Digits == "0123456789"

RECURSIVE NumToString(_)
\* Number.prototype.toString of a natural number
NumToString(n) ==
  IF n < 10 THEN CharAt(Digits, n + 1)
  ELSE NumToString(n \div 10) \o CharAt(Digits, (n % 10) + 1)

(***************************************************************************)
(* JavaScript values: a tag and a payload whose type the tag fixes.        *)
(***************************************************************************)
Undefined == [t |-> "undefined", v |-> 0]
Null == [t |-> "null", v |-> 0]
Num(n) == [t |-> "number", v |-> n]
Str(s) == [t |-> "string", v |-> s]
\* an object: v maps the names of its own properties to values
Obj(f) == [t |-> "object", v |-> f]
NoProps == [n \in {} |-> Undefined]

\* !x
Falsy(x) ==
  \/ x.t \in {"undefined", "null"}
  \/ x.t = "number" /\ x.v = 0
  \/ x.t = "string" /\ x.v = ""

\* x == null (true of null and undefined, nothing else)
LooseNull(x) == x.t \in {"undefined", "null"}

\* a property read x.name or the destructuring { name } = x; reading a
\* property of null or undefined throws, callers check Throws first
Get(x, name) ==
  IF x.t = "object" /\ name \in DOMAIN x.v THEN x.v[name] ELSE Undefined

\* x.p (or x.method()) throws a TypeError when x is null or undefined
ThrowsOnAccess(x) == x.t \in {"undefined", "null"}

\* the conversion of a template literal `${x}` (and of x.toString() for the
\* primitives that have it)
ToStr(x) ==
  CASE x.t = "undefined" -> "undefined"
    [] x.t = "null" -> "null"
    [] x.t = "number" -> NumToString(x.v)
    [] x.t = "string" -> x.v
    [] OTHER -> "[object Object]"

(***************************************************************************)
(* new URLSearchParams(initData): the application/x-www-form-urlencoded    *)
(* parser.  A parameter list is a sequence of <<name, value>> pairs in     *)
(* input order.                                                            *)
(***************************************************************************)
\* the percent escapes of the characters the payloads of the model use
PercentTable ==
  [h \in {"7B", "7D", "22", "3A", "2C", "20", "3D", "26", "2B", "25", "0A"} |->
     CASE h = "7B" -> "{" [] h = "7D" -> "}" [] h = "22" -> "\""
       [] h = "3A" -> ":" [] h = "2C" -> "," [] h = "20" -> " "
       [] h = "3D" -> "=" [] h = "26" -> "&" [] h = "2B" -> "+"
       [] h = "25" -> "%" [] h = "0A" -> "\n"]

RECURSIVE PercentDecode(_)
\* "+" is a space, %XX is the character XX, anything else is itself
PercentDecode(s) ==
  LET i == FirstOf(s, {"+", "%"})
  IN IF i = 0 THEN s
     ELSE IF CharAt(s, i) = "+"
          THEN SubSeq(s, 1, i - 1) \o " " \o PercentDecode(SubSeq(s, i + 1, Len(s)))
     ELSE IF i + 2 <= Len(s) /\ SubSeq(s, i + 1, i + 2) \in DOMAIN PercentTable
          THEN SubSeq(s, 1, i - 1) \o PercentTable[SubSeq(s, i + 1, i + 2)]
               \o PercentDecode(SubSeq(s, i + 3, Len(s)))
     ELSE SubSeq(s, 1, i) \o PercentDecode(SubSeq(s, i + 1, Len(s)))

\* one "name=value" segment: split at the first "=", a segment without "="
\* is a name with the empty value
ParseSegment(seg) ==
  LET i == IndexOf(seg, "=")
  IN IF i = 0 THEN <<PercentDecode(seg), "">>
     ELSE <<PercentDecode(SubSeq(seg, 1, i - 1)),
            PercentDecode(SubSeq(seg, i + 1, Len(seg)))>>

RECURSIVE ParseSegments(_)
\* empty segments are skipped
ParseSegments(segs) ==
  IF Len(segs) = 0 THEN <<>>
  ELSE IF segs[1] = "" THEN ParseSegments(Tail(segs))
  ELSE <<ParseSegment(segs[1])>> \o ParseSegments(Tail(segs))

\* new URLSearchParams(init) for a string: a leading "?" is dropped
URLSearchParams(init) ==
  LET body == IF Len(init) > 0 /\ CharAt(init, 1) = "?"
              THEN SubSeq(init, 2, Len(init)) ELSE init
  IN ParseSegments(Split(body, "&"))

\* a get that returns the value of the last pair with the name
ParamsGet_last(params, name) ==
  LET hits == SelectSeq(params, LAMBDA e : e[1] = name)
  IN IF Len(hits) = 0 THEN Null ELSE Str(hits[Len(hits)][2])

\* params.get(name): the value of the first pair of that name, null if none
ParamsGet(params, name) ==
  IF \E i \in 1..Len(params) : params[i][1] = name
  THEN Str(params[CHOOSE i \in 1..Len(params) :
                    /\ params[i][1] = name
                    /\ \A j \in 1..(i - 1) : params[j][1] # name][2])
  ELSE Null

\* params.delete(name): every pair of that name is removed
ParamsDelete(params, name) == SelectSeq(params, LAMBDA p : p[1] # name)

(***************************************************************************)
(* a.localeCompare(b) under the default (root) collation, for names over   *)
(* letters, digits and "_": names compare by their letters regardless of   *)
(* case first (punctuation before digits before letters), and a difference *)
(* of case alone decides only between otherwise equal names, lower case    *)
(* first.                                                                  *)
(***************************************************************************)
LowerCase == "abcdefghijklmnopqrstuvwxyz"
UpperCase == "ABCDEFGHIJKLMNOPQRSTUVWXYZ"

\* the position of each character of a string of distinct characters
Positions(alphabet) ==
  [c \in { CharAt(alphabet, i) : i \in 1..Len(alphabet) } |-> IndexOf(alphabet, c)]

DigitAt == Positions(Digits)
LowerAt == Positions(LowerCase)
UpperAt == Positions(UpperCase)

\* the primary weight of a character: "_" before the digits before the
\* letters, a letter's two cases alike
PrimaryWeight(c) ==
  IF c = "_" THEN 1
  ELSE IF c \in DOMAIN DigitAt THEN 1 + DigitAt[c]
  ELSE IF c \in DOMAIN LowerAt THEN 20 + LowerAt[c]
  ELSE IF c \in DOMAIN UpperAt THEN 20 + UpperAt[c]
  ELSE 0

\* the tertiary weight: lower case before upper case
TertiaryWeight(c) == IF c \in DOMAIN UpperAt THEN 1 ELSE 0

\* the sequence of the weights of the characters of a name at a level
Weights(level, a) ==
  [i \in 1..Len(a) |-> IF level = "primary" THEN PrimaryWeight(CharAt(a, i))
                       ELSE TertiaryWeight(CharAt(a, i))]

\* lexicographic comparison of two sequences of numbers: -1, 0 or 1
CompareSeq(wa, wb) ==
  LET common == IF Len(wa) < Len(wb) THEN Len(wa) ELSE Len(wb)
      diff == { i \in 1..common : wa[i] # wb[i] }
  IN IF diff # {}
     THEN (IF wa[SetMin(diff)] < wb[SetMin(diff)] THEN 0 - 1 ELSE 1)
     ELSE IF Len(wa) < Len(wb) THEN 0 - 1
     ELSE IF Len(wa) > Len(wb) THEN 1
     ELSE 0

localeCompare(a, b) ==
  IF CompareSeq(Weights("primary", a), Weights("primary", b)) # 0
  THEN CompareSeq(Weights("primary", a), Weights("primary", b))
  ELSE CompareSeq(Weights("tertiary", a), Weights("tertiary", b))

\* the characters of names in the order of their codes
CodeOrder == "0123456789ABCDEFGHIJKLMNOPQRSTUVWXYZ_abcdefghijklmnopqrstuvwxyz"
CodeAt == Positions(CodeOrder)

\* comparison of two names by the codes of their characters (byte order)
byteCompare(a, b) ==
  CompareSeq([i \in 1..Len(a) |-> IF CharAt(a, i) \in DOMAIN CodeAt THEN CodeAt[CharAt(a, i)] ELSE 0],
             [i \in 1..Len(b) |-> IF CharAt(b, i) \in DOMAIN CodeAt THEN CodeAt[CharAt(b, i)] ELSE 0])

\* the comparator of an order of names
KeyCompare(order, a, b) ==
  IF order = "localeCompare" THEN localeCompare(a, b) ELSE byteCompare(a, b)

RECURSIVE InsertSorted(_, _, _)
\* e goes after every entry whose key does not compare greater than its key
InsertSorted(order, sorted, e) ==
  IF Len(sorted) = 0 THEN <<e>>
  ELSE IF KeyCompare(order, sorted[1][1], e[1]) <= 0
       THEN <<sorted[1]>> \o InsertSorted(order, Tail(sorted), e)
  ELSE <<e>> \o sorted

RECURSIVE StableSort(_, _)
\* Array.prototype.sort with a comparator of the keys: a stable sort
StableSort(order, entries) ==
  IF Len(entries) = 0 THEN <<>>
  ELSE InsertSorted(order, StableSort(order, SubSeq(entries, 1, Len(entries) - 1)),
                    entries[Len(entries)])

\* entries.sort(([a], [b]) => a.localeCompare(b))
\* the entries left in the order they were sent
SortEntries_unsorted(entries) == entries

SortEntries(entries) == StableSort("localeCompare", entries)

\* .map(([key, value]) => `${key}=${value}`)
RenderEntries(entries) ==
  [i \in 1..Len(entries) |-> entries[i][1] \o "=" \o entries[i][2]]

(***************************************************************************)
(* crypto.createHmac("sha256", key).update(message).digest(): a term over  *)
(* key and message, equal for equal arguments only (no payload of the      *)
(* model contains "(", "|" or ")").                                        *)
(***************************************************************************)
createHmac(key, message) == "H(" \o key \o "|" \o message \o ")"

\* .digest("hex"): the hexadecimal rendering of a digest
DigestHex(digest) == "hex" \o digest

(***************************************************************************)
(* JSON.parse.  The JSON texts of the model are the canonical renderings   *)
(* of the values of JsonValues; JSON.parse inverts the rendering, and      *)
(* every other text is a syntax error.                                     *)
(***************************************************************************)
UserIds == {7, 123}
FirstNames == {"Ada", ""}
LastNames == {"L"}

\* the records { id?, first_name?, last_name? } a user field may hold
UserRecords ==
  { Obj([n \in names |->
           CASE n = "id" -> Num(id)
             [] n = "first_name" -> Str(fn)
             [] n = "last_name" -> Str(ln)]) :
      names \in SUBSET {"id", "first_name", "last_name"},
      id \in UserIds, fn \in FirstNames, ln \in LastNames }

JsonValues == UserRecords \cup {Num(0), Num(5), Null, Str("x")}

\* the rendering "name":value of one property
JsonMember(x, name) ==
  "\"" \o name \o "\":" \o
  (IF x.v[name].t = "string" THEN "\"" \o x.v[name].v \o "\""
   ELSE ToStr(x.v[name]))

\* JSON.stringify for the values of JsonValues (properties in the order id,
\* first_name, last_name)
JsonStringify(x) ==
  CASE x.t = "object" ->
         LET names == SelectSeq(<<"id", "first_name", "last_name">>,
                                LAMBDA n : n \in DOMAIN x.v)
         IN "{" \o Join([i \in 1..Len(names) |-> JsonMember(x, names[i])],
                        ",") \o "}"
    [] x.t = "string" -> "\"" \o x.v \o "\""
    [] OTHER -> ToStr(x)

JsonTexts == { JsonStringify(x) : x \in JsonValues }

\* JSON.parse(text): [ok |-> TRUE, val |-> the value] or a SyntaxError
JSON_parse(text) ==
  IF \E x \in JsonValues : JsonStringify(x) = text
  THEN [ok |-> TRUE, val |-> CHOOSE x \in JsonValues : JsonStringify(x) = text]
  ELSE [ok |-> FALSE, val |-> Undefined]

(***************************************************************************)
(* validateTelegramData(initData, botToken).  initData is a string,        *)
(* botToken a string value or undefined.  The result names the statement   *)
(* the call leaves by and the value returned there.                        *)
(***************************************************************************)
\* Array.from(params.entries()).sort(localeCompare).map(k=v).join("\n")
dataCheckString(params) == Join(RenderEntries(SortEntries(params)), "\n")

\* createHmac("sha256", "WebAppData").update(botToken).digest()
secretKey(botToken) == createHmac("WebAppData", botToken)

\* createHmac("sha256", secretKey).update(dataCheckString).digest("hex")
calculatedHash(params, botToken) ==
  DigestHex(createHmac(secretKey(botToken), dataCheckString(params)))

\* the verifier without the comparison of the two hashes
validateTelegramData_uncompared(initData, botToken) ==
  LET all == URLSearchParams(initData)
      hash == ParamsGet(all, "hash")
      params == ParamsDelete(all, "hash")
      userJson == ParamsGet(params, "user")
  IN IF Falsy(hash) THEN [exit |-> "MissingHash", val |-> Null]
     ELSE IF botToken.t # "string" THEN [exit |-> "Throw", val |-> Undefined]
     ELSE IF Falsy(userJson) THEN [exit |-> "MalformedClaim", val |-> Null]
     ELSE IF ~JSON_parse(userJson.v).ok
          THEN [exit |-> "MalformedClaim", val |-> Null]
     ELSE [exit |-> "Parsed", val |-> JSON_parse(userJson.v).val]

validateTelegramData(initData, botToken) ==
  LET all == URLSearchParams(initData)
      hash == ParamsGet(all, "hash")
      params == ParamsDelete(all, "hash")
      userJson == ParamsGet(params, "user")
  IN IF Falsy(hash) THEN [exit |-> "MissingHash", val |-> Null]
     \* update(undefined) throws a TypeError
     ELSE IF botToken.t # "string" THEN [exit |-> "Throw", val |-> Undefined]
     ELSE IF calculatedHash(params, botToken.v) # hash.v
          THEN [exit |-> "SignatureMismatch", val |-> Null]
     ELSE IF Falsy(userJson) THEN [exit |-> "MalformedClaim", val |-> Null]
     ELSE IF ~JSON_parse(userJson.v).ok
          THEN [exit |-> "MalformedClaim", val |-> Null]
     ELSE [exit |-> "Parsed", val |-> JSON_parse(userJson.v).val]

(***************************************************************************)
(* jsonwebtoken.  A token is the value [t |-> "jwt", v |-> [claims, iat,   *)
(* exp, key]]: the payload, the two timestamps sign adds, and the secret   *)
(* whose signature the token carries.  The clock counts days.              *)
(***************************************************************************)
\* expiresIn: "7d"
ExpiresIn == 7

Jwt(tok) == [t |-> "jwt", v |-> tok]

\* jwt.sign(claims, secret, { expiresIn: "7d" }) at the instant at; it throws
\* when the secret is missing or empty
jwt_sign(claims, secret, at) ==
  IF Falsy(secret) THEN [ok |-> FALSE, token |-> Undefined]
  ELSE [ok |-> TRUE,
        token |-> Jwt([claims |-> claims, iat |-> at, exp |-> at + ExpiresIn,
                       key |-> secret.v])]

\* the decoded payload of a token: its claims with iat and exp
Decoded(token) ==
  Obj([n \in DOMAIN token.v.claims \cup {"iat", "exp"} |->
         CASE n = "iat" -> Num(token.v.iat)
           [] n = "exp" -> Num(token.v.exp)
           [] OTHER -> token.v.claims[n]])

\* verification that does not compare the signing secret
jwt_verify_anykey(token, secret, at) ==
  IF token.t # "jwt" THEN [err |-> TRUE, decoded |-> Undefined]
  ELSE IF Falsy(secret) THEN [err |-> TRUE, decoded |-> Undefined]
  ELSE IF at >= token.v.exp THEN [err |-> TRUE, decoded |-> Undefined]
  ELSE [err |-> FALSE, decoded |-> Decoded(token)]

\* verification that does not look at the expiry
jwt_verify_unexpiring(token, secret, at) ==
  IF token.t # "jwt" THEN [err |-> TRUE, decoded |-> Undefined]
  ELSE IF Falsy(secret) THEN [err |-> TRUE, decoded |-> Undefined]
  ELSE IF token.v.key # secret.v THEN [err |-> TRUE, decoded |-> Undefined]
  ELSE [err |-> FALSE, decoded |-> Decoded(token)]

\* jwt.verify(token, secret, callback) at the instant at: the callback gets
\* an error (no token, not a JWT, no secret, another secret's signature,
\* expired) or the decoded payload
jwt_verify(token, secret, at) ==
  IF token.t # "jwt" THEN [err |-> TRUE, decoded |-> Undefined]
  ELSE IF Falsy(secret) THEN [err |-> TRUE, decoded |-> Undefined]
  ELSE IF token.v.key # secret.v THEN [err |-> TRUE, decoded |-> Undefined]
  ELSE IF at >= token.v.exp THEN [err |-> TRUE, decoded |-> Undefined]
  ELSE [err |-> FALSE, decoded |-> Decoded(token)]

(***************************************************************************)
(* The three revisions of the server.                                      *)
(***************************************************************************)
RevIndex == "index.js"
RevPart0 == "part_000"
RevPart1 == "part_001"
Revisions == {RevIndex, RevPart0, RevPart1}

\* the revisions that keep the users in the auth service's users table
UsesAuthUsers(r) == r \in {RevIndex, RevPart1}

\* the table the login handler reads and creates users in: .from("users") in
\* index.js and part_001, .from("jobseekers") in part_000
DirectoryTable(r, usersTable, jobseekersTable) ==
  IF UsesAuthUsers(r) THEN usersTable ELSE jobseekersTable

(***************************************************************************)
(* State.                                                                  *)
(***************************************************************************)
VARIABLES
  rev,                 \* the revision that is deployed
  TELEGRAM_BOT_TOKEN,  \* process.env.TELEGRAM_BOT_TOKEN: a string or undefined
  JWT_SECRET,          \* process.env.JWT_SECRET: a string or undefined
  users,               \* the rows of the users table, in order
  now,                 \* the clock, in days
  req,                 \* the login requests: position, locals, response
  auth,                \* the last protected request and its answer
  reg,                 \* the registration requests: position, locals, response
  jobseekers,          \* the rows of the jobseekers table, in order
  cvs                  \* the names of the objects in the storage bucket "cvs"

vars == <<rev, TELEGRAM_BOT_TOKEN, JWT_SECRET, users, now, req, auth,
          reg, jobseekers, cvs>>

Reqs == 1..NumReqs

NoResponse == [status |-> 0, error |-> "", token |-> Undefined]
Response(status, error) == [status |-> status, error |-> error, token |-> Undefined]
TokenResponse(token) == [status |-> 200, error |-> "", token |-> token]

\* a request that has not arrived
IdleReq ==
  [pc |-> "idle", initData |-> Undefined, userData |-> Undefined,
   data |-> Undefined, user |-> Undefined, res |-> NoResponse,
   lookups |-> 0, creates |-> 0]


(***************************************************************************)
(* The user directory (the hosted database).  Revisions index.js and       *)
(* part_001 read the users table, whose rows carry the identity in         *)
(* raw_user_meta_data, and create users through the auth admin API;        *)
(* revision part_000 reads and inserts rows of the jobseekers table, the    *)
(* table the registration fills.                                           *)
(***************************************************************************)
\* an object without its undefined properties (what JSON transports)
DropUndefined(f) == [n \in { m \in DOMAIN f : f[m].t # "undefined" } |-> f[n]]

\* the telegram_id column (or metadata entry) of a row
RowTelegramId(rv, row) ==
  IF UsesAuthUsers(rv) THEN Get(Get(row, "raw_user_meta_data"), "telegram_id")
  ELSE Get(row, "telegram_id")

\* the rows .eq(<telegram_id>, idText) selects, in table order
MatchingRows(rv, table, idText) ==
  SelectSeq(table, LAMBDA row : RowTelegramId(rv, row) = Str(idText))

\* the data of the lookup: .single() yields the row when exactly one row
\* matches and null otherwise (also when the query fails); .limit(1) yields a
\* list of at most one row, or null when the query fails
LookupData(rv, table, idText, fails) ==
  LET rows == MatchingRows(rv, table, idText)
  IN IF fails THEN Null
     ELSE IF UsesAuthUsers(rv)
          THEN (IF Len(rows) = 1 THEN rows[1] ELSE Null)
     ELSE IF Len(rows) > 0 THEN rows[1] ELSE Null

\* user_metadata: { first_name, last_name, telegram_id: telegram_id.toString() }
UserMetadata(userData) ==
  Obj(DropUndefined([n \in {"first_name", "last_name", "telegram_id"} |->
        IF n = "telegram_id" THEN Str(ToStr(Get(userData, "id")))
        ELSE Get(userData, n)]))

\* x || ""
OrEmpty(x) == IF Falsy(x) THEN Str("") ELSE x

\* the row a successful creation adds to the table
CreatedRow(rv, table, userData) ==
  LET id == Num(Len(table) + 1)
      idText == ToStr(Get(userData, "id"))
  IN IF UsesAuthUsers(rv)
     THEN Obj([n \in {"id", "email", "raw_user_meta_data"} |->
                 CASE n = "id" -> id
                   [] n = "email" -> Str(idText \o "@telegram.fake")
                   [] n = "raw_user_meta_data" -> UserMetadata(userData)])
     ELSE Obj([n \in {"id", "telegram_id", "first_name", "last_name"} |->
                 CASE n = "id" -> id
                   [] n = "telegram_id" -> Str(idText)
                   [] n = "first_name" -> OrEmpty(Get(userData, "first_name"))
                   [] n = "last_name" -> OrEmpty(Get(userData, "last_name"))])

\* the user the creation call returns: newUser.user of the auth admin API
\* carries the metadata as user_metadata; the jobseekers insert returns the row
CreatedUser(rv, table, userData) ==
  LET row == CreatedRow(rv, table, userData)
  IN IF UsesAuthUsers(rv)
     THEN Obj([n \in {"id", "email", "user_metadata"} |->
                 IF n = "user_metadata" THEN Get(row, "raw_user_meta_data")
                 ELSE Get(row, n)])
     ELSE row

\* the user the handler keeps of a row the lookup found: index.js keeps the
\* row, part_001 adds user_metadata: raw_user_meta_data || {}, part_000 keeps
\* the first row
FoundUser(rv, data) ==
  IF rv = RevPart1
  THEN Obj([n \in DOMAIN data.v \cup {"user_metadata"} |->
              IF n = "user_metadata"
              THEN (IF Falsy(Get(data, "raw_user_meta_data")) THEN Obj(NoProps)
                    ELSE Get(data, "raw_user_meta_data"))
              ELSE data.v[n]])
  ELSE data

(***************************************************************************)
(* POST /api/telegram-login.                                               *)
(***************************************************************************)
\* the handler going on to the directory with whatever the verifier returned
LoginEntry_unrejected(rv, botToken, jwtSecret, initData) ==
  LET v == validateTelegramData(initData.v, botToken)
      End(status, error) ==
        [pc |-> "done", res |-> Response(status, error), userData |-> Undefined]
  IN IF Falsy(initData) THEN End(400, "Missing initData")
     ELSE IF v.exit = "Throw" THEN End(500, "Internal Server Error")
     ELSE [pc |-> "lookup", res |-> NoResponse, userData |-> v.val]

\* the statements up to the first await: the next position of the request,
\* its response if it has ended, and the verified user data
LoginEntry(rv, botToken, jwtSecret, initData) ==
  LET v == validateTelegramData(initData.v, botToken)
      telegram_id == Get(v.val, "id")
      End(status, error) ==
        [pc |-> "done", res |-> Response(status, error), userData |-> Undefined]
  IN IF Falsy(initData) THEN End(400, "Missing initData")
     ELSE IF rv = RevPart0 /\ (Falsy(botToken) \/ Falsy(jwtSecret))
          THEN End(500, "Server configuration error.")
     ELSE IF v.exit = "Throw" THEN End(500, "Internal Server Error")
     ELSE IF Falsy(v.val) THEN End(403, "Invalid Telegram data")
     \* telegram_id.toString() of an undefined id throws: inside the inner try
     \* of index.js and part_001, under the outer try alone in part_000
     ELSE IF ThrowsOnAccess(telegram_id)
          THEN (IF UsesAuthUsers(rv) THEN End(500, "Database operation failed.")
                ELSE End(500, "Internal Server Error"))
     ELSE [pc |-> "lookup", res |-> NoResponse, userData |-> v.val]

\* the name claim: `${first_name} ${last_name}`.trim()
DisplayName(holder) ==
  Str(Trim(ToStr(Get(holder, "first_name")) \o " " \o ToStr(Get(holder, "last_name"))))

\* jwt.sign({ id, telegram_id, name }, JWT_SECRET, { expiresIn: "7d" }) and
\* the response; index.js and part_001 read the claims from
\* user.user_metadata, part_000 from the user
IssueToken(rv, user, jwtSecret, at) ==
  LET holder == IF UsesAuthUsers(rv) THEN Get(user, "user_metadata") ELSE user
      claims == DropUndefined([n \in {"id", "telegram_id", "name"} |->
                  CASE n = "id" -> Get(user, "id")
                    [] n = "telegram_id" -> Get(holder, "telegram_id")
                    [] n = "name" -> DisplayName(holder)])
      signed == jwt_sign(claims, jwtSecret, at)
  IN IF ThrowsOnAccess(holder) THEN Response(500, "Internal Server Error")
     ELSE IF ~signed.ok THEN Response(500, "Internal Server Error")
     ELSE TokenResponse(signed.token)


\* the request after the statements up to the first await
Received(initData, e) ==
  [IdleReq EXCEPT !.pc = e.pc, !.initData = initData, !.userData = e.userData,
                  !.res = e.res, !.lookups = IF e.pc = "lookup" THEN 1 ELSE 0]

\* the handler calling createUser whatever the lookup answered
LookedUp_alwaysCreates(rv, q, data, fails, jwtSecret, at) ==
  IF rv = RevPart0 /\ fails
  THEN [q EXCEPT !.pc = "done", !.res = Response(500, "Internal Server Error")]
  ELSE [q EXCEPT !.pc = "create", !.creates = @ + 1]

\* the request after the lookup answered with data
LookedUp(rv, q, data, fails, jwtSecret, at) ==
  IF rv = RevPart0 /\ fails
  \* if (fetchError) throw fetchError
  THEN [q EXCEPT !.pc = "done", !.res = Response(500, "Internal Server Error")]
  ELSE IF ~Falsy(data)
  THEN [q EXCEPT !.pc = "done", !.data = data, !.user = FoundUser(rv, data),
                 !.res = IssueToken(rv, FoundUser(rv, data), jwtSecret, at)]
  ELSE [q EXCEPT !.pc = "create", !.creates = @ + 1]

\* the request after the creation call answered
Created(rv, q, user, fails, jwtSecret, at) ==
  IF fails
  THEN [q EXCEPT !.pc = "done",
                 !.res = IF UsesAuthUsers(rv)
                         THEN Response(500, "Database operation failed.")
                         ELSE Response(500, "Internal Server Error")]
  ELSE [q EXCEPT !.pc = "done", !.data = user, !.user = user,
                 !.res = IssueToken(rv, user, jwtSecret, at)]

\* a login request arrives with req.body.initData = initData and runs to its
\* first await (the lookup is sent) or to its response
LoginReceive(r, initData) ==
  /\ req[r].pc = "idle"
  /\ req' = [req EXCEPT ![r] =
               Received(initData,
                        LoginEntry(rev, TELEGRAM_BOT_TOKEN, JWT_SECRET, initData))]
  /\ UNCHANGED <<rev, TELEGRAM_BOT_TOKEN, JWT_SECRET, users, now, auth, reg, jobseekers, cvs>>

\* the lookup answers (fails: the directory reports an error) and the
\* handler runs on: to its response, or to the creation call
LoginLookupReturn(r, fails) ==
  /\ req[r].pc = "lookup"
  /\ req' = [req EXCEPT ![r] =
       LookedUp(rev, req[r],
                LookupData(rev, DirectoryTable(rev, users, jobseekers),
                           ToStr(Get(req[r].userData, "id")), fails),
                fails, JWT_SECRET, now)]
  /\ UNCHANGED <<rev, TELEGRAM_BOT_TOKEN, JWT_SECRET, users, now, auth, reg, jobseekers, cvs>>

\* the creation call answers (fails: insertError is set) and the handler
\* runs to its response
LoginCreateReturn(r, fails) ==
  /\ req[r].pc = "create"
  /\ req' = [req EXCEPT ![r] =
       Created(rev, req[r],
               CreatedUser(rev, DirectoryTable(rev, users, jobseekers), req[r].userData),
               fails, JWT_SECRET, now)]
  /\ users' = IF fails \/ ~UsesAuthUsers(rev) THEN users
              ELSE Append(users, CreatedRow(rev, users, req[r].userData))
  /\ jobseekers' = IF fails \/ UsesAuthUsers(rev) THEN jobseekers
                   ELSE Append(jobseekers, CreatedRow(rev, jobseekers, req[r].userData))
  /\ UNCHANGED <<rev, TELEGRAM_BOT_TOKEN, JWT_SECRET, now, auth, reg, cvs>>

(***************************************************************************)
(* The authenticator: GET /api/protected of index.js and the               *)
(* authenticateToken middleware of part_001 (part_000 has none).  An       *)
(* Authorization header is undefined or [t |-> "header", v |-> the words   *)
(* header.split(" ") yields]; a word is a string value or a token.         *)
(***************************************************************************)
Header(words) == [t |-> "header", v |-> words]

\* !authHeader: the header is absent or the empty string
HeaderFalsy(h) == h.t = "undefined" \/ (Len(h.v) = 1 /\ Falsy(h.v[1]))

\* authHeader.startsWith("Bearer ")
StartsWithBearer(h) == Len(h.v) >= 2 /\ h.v[1] = Str("Bearer")

\* authHeader.split(" ")[1]
SecondWord(h) == IF Len(h.v) >= 2 THEN h.v[2] ELSE Undefined

\* a word is falsy when it is undefined or the empty string
WordFalsy(w) == w.t = "undefined" \/ (w.t = "string" /\ w.v = "")

AuthResult(status, error, user, passed) ==
  [status |-> status, error |-> error, user |-> user, passed |-> passed]

\* index.js, GET /api/protected
ProtectedRoute(h, jwtSecret, at) ==
  LET token == SecondWord(h)
      v == jwt_verify(token, jwtSecret, at)
  IN IF HeaderFalsy(h) \/ ~StartsWithBearer(h)
     THEN AuthResult(401, "Authorization header is missing or invalid.", Undefined, FALSE)
     ELSE IF WordFalsy(token)
     THEN AuthResult(401, "Token is missing.", Undefined, FALSE)
     ELSE IF v.err
     THEN AuthResult(403, "Token is not valid.", Undefined, FALSE)
     ELSE AuthResult(200, "", v.decoded, TRUE)

\* part_001, authenticateToken: passed is the call of next() with
\* req.user = decoded, which sends no response (status 0)
authenticateToken(h, jwtSecret, at) ==
  LET token == IF HeaderFalsy(h) THEN (IF h.t = "undefined" THEN Undefined ELSE Str(""))
               ELSE SecondWord(h)
      v == jwt_verify(token, jwtSecret, at)
  IN IF LooseNull(token)
     THEN AuthResult(401, "No token provided", Undefined, FALSE)
     ELSE IF v.err
     THEN AuthResult(403, "Token is not valid", Undefined, FALSE)
     ELSE AuthResult(0, "", v.decoded, TRUE)

\* the authenticator of a revision
Authenticate(rv, h, jwtSecret, at) ==
  IF rv = RevPart1 THEN authenticateToken(h, jwtSecret, at)
  ELSE ProtectedRoute(h, jwtSecret, at)

\* the response of the handler of GET /api/user-profile
ProfileResponse(status, error, user) == [status |-> status, error |-> error, user |-> user]
NoProfile == ProfileResponse(0, "", Undefined)

NoAuth ==
  [pc |-> "idle", header |-> Undefined, result |-> AuthResult(0, "", Undefined, FALSE),
   profile |-> NoProfile]

\* { id: user.id, email: user.email, ...user.raw_user_meta_data }
NormalizedUser(row) ==
  LET meta == Get(row, "raw_user_meta_data")
      spread == IF meta.t = "object" THEN DOMAIN meta.v ELSE {}
  IN Obj(DropUndefined([n \in {"id", "email"} \cup spread |->
           IF n \in spread THEN meta.v[n] ELSE Get(row, n)]))

\* the handler of GET /api/user-profile after its query answered:
\* .eq("id", req.user.id).single() reports an error unless exactly one row
\* matches
ProfileAnswer(table, decoded, fails) ==
  LET rows == SelectSeq(table, LAMBDA row : Get(row, "id") = Get(decoded, "id"))
  IN IF fails \/ Len(rows) # 1 THEN ProfileResponse(500, "Internal Server Error", Undefined)
     ELSE ProfileResponse(200, "", NormalizedUser(rows[1]))

\* a token of another issuer: signed with a secret this server does not hold
ForeignToken ==
  Jwt([claims |-> [id |-> Num(1), telegram_id |-> Str("123"), name |-> Str("Ada L")],
       iat |-> 0, exp |-> ExpiresIn, key |-> "othersecret"])

\* the tokens the responses so far have handed out
IssuedTokens == { req[r].res.token : r \in { q \in Reqs : req[q].res.token.t = "jwt" } }

\* the Authorization headers a client may send
Headers ==
  {Undefined, Header(<<Str("")>>), Header(<<Str("Bearer")>>),
   Header(<<Str("Bearer"), Str("")>>), Header(<<Str("Bearer"), Str("garbage")>>)}
  \cup { Header(<<Str(scheme), tok>>) :
           scheme \in {"Bearer", "Basic"}, tok \in IssuedTokens \cup {ForeignToken} }

\* a protected request with the Authorization header h arrives, one at a
\* time: GET /api/protected of index.js answers it; in part_001 the
\* middleware of GET /api/user-profile answers it or lets the handler run,
\* which sends its query and waits
Protected(h) ==
  /\ rev # RevPart0
  /\ auth.pc # "profile"
  /\ auth' = [pc |-> IF rev = RevPart1 /\ Authenticate(rev, h, JWT_SECRET, now).passed
                     THEN "profile" ELSE "done",
              header |-> h, result |-> Authenticate(rev, h, JWT_SECRET, now),
              profile |-> NoProfile]
  /\ UNCHANGED <<rev, TELEGRAM_BOT_TOKEN, JWT_SECRET, users, now, req, reg, jobseekers, cvs>>

\* the query of the handler of GET /api/user-profile answers (fails: error
\* is set) and the handler responds
ProfileReturn(fails) ==
  /\ auth.pc = "profile"
  /\ auth' = [auth EXCEPT !.pc = "done",
                          !.profile = ProfileAnswer(users, auth.result.user, fails)]
  /\ UNCHANGED <<rev, TELEGRAM_BOT_TOKEN, JWT_SECRET, users, now, req, reg, jobseekers, cvs>>

\* a day passes
Tick ==
  /\ now < MaxClock
  /\ now' = now + 1
  /\ UNCHANGED <<rev, TELEGRAM_BOT_TOKEN, JWT_SECRET, users, req, auth, reg, jobseekers, cvs>>


(***************************************************************************)
(* POST /api/jobseekers/register, the same text in every revision.  A body *)
(* holds the text fields of req.body (careerQuestions a string or          *)
(* undefined) and cv, which tells whether a CV file comes with the request *)
(* (req.file).                                                             *)
(***************************************************************************)
\* the text fields of a body and the columns they are inserted in
BodyColumns ==
  [telegram_id |-> "telegramId", phone_number |-> "phoneNumber", email |-> "email",
   first_name |-> "firstName", last_name |-> "lastName",
   date_of_birth |-> "dateOfBirth"]

NoBody ==
  [telegramId |-> "", phoneNumber |-> "", email |-> "", firstName |-> "",
   lastName |-> "", dateOfBirth |-> "", careerQuestions |-> Undefined, cv |-> FALSE]

\* a registration request that has not arrived
IdleReg ==
  [pc |-> "idle", body |-> NoBody, cvUrl |-> Null, status |-> 0, message |-> "",
   jobSeeker |-> Undefined]

\* the request ended with a status and a message
RegisterEnd(q, status, message) ==
  [q EXCEPT !.pc = "done", !.status = status, !.message = message]

\* typeof careerQuestions === "string" ? JSON.parse(careerQuestions) : ...
\* throws on a text that is no JSON
CareerQuestionsThrow(careerQuestions) ==
  careerQuestions.t = "string" /\ ~JSON_parse(careerQuestions.v).ok

\* parsedCareerQuestions
ParsedCareerQuestions(careerQuestions) ==
  IF careerQuestions.t = "string" THEN JSON_parse(careerQuestions.v).val
  ELSE careerQuestions

\* `${telegramId}_${Date.now()}_${cvFile.originalname}`: the request number
\* stands for the instant of the upload
FileName(telegramId, r) == telegramId \o "_" \o NumToString(r) \o "_cv.pdf"

\* getPublicUrl(fileName).publicUrl
PublicUrl(fileName) == "https://store/cvs/" \o fileName

\* .or(`telegram_id.eq.${telegramId},email.eq.${email}`)
ExistingJobSeeker(table, telegramId, email) ==
  SelectSeq(table, LAMBDA row : \/ Get(row, "telegram_id") = Str(telegramId)
                                \/ Get(row, "email") = Str(email))

\* the row the insert adds to the table, with the id the database gives it
JobSeekerRow(table, q) ==
  Obj(DropUndefined(
    [n \in DOMAIN BodyColumns \cup {"id", "cv_url", "career_questions"} |->
       CASE n = "id" -> Num(Len(table) + 1)
         [] n = "cv_url" -> q.cvUrl
         [] n = "career_questions" -> ParsedCareerQuestions(q.body.careerQuestions)
         [] OTHER -> Str(q.body[BodyColumns[n]])]))

\* the request after the statements up to the first await
Registered(body) ==
  IF CareerQuestionsThrow(body.careerQuestions)
  THEN RegisterEnd([IdleReg EXCEPT !.body = body], 500, "Internal server error")
  ELSE [IdleReg EXCEPT !.pc = IF body.cv THEN "upload" ELSE "check", !.body = body]

\* the request after the upload answered
Uploaded(q, r, fails) ==
  IF fails THEN RegisterEnd(q, 500, "Internal server error")
  ELSE [q EXCEPT !.pc = "check",
                 !.cvUrl = Str(PublicUrl(FileName(q.body.telegramId, r)))]

\* the request after the query for an existing job seeker answered
Checked(q, table, fails) ==
  IF fails THEN RegisterEnd(q, 500, "Internal server error")
  ELSE IF Len(ExistingJobSeeker(table, q.body.telegramId, q.body.email)) > 0
  THEN RegisterEnd(q, 409, "Job seeker with this Telegram ID or email already exists.")
  ELSE [q EXCEPT !.pc = "insert"]

\* the request after the insert answered: jobSeeker is data[0]
Inserted(q, table, fails) ==
  IF fails THEN RegisterEnd(q, 500, "Internal server error")
  ELSE [RegisterEnd(q, 201, "Job seeker registered successfully!")
          EXCEPT !.jobSeeker = JobSeekerRow(table, q)]

\* a registration arrives and runs to its first await: the upload when a CV
\* comes with it, the query otherwise
RegisterReceive(r, body) ==
  /\ reg[r].pc = "idle"
  /\ reg' = [reg EXCEPT ![r] = Registered(body)]
  /\ UNCHANGED <<rev, TELEGRAM_BOT_TOKEN, JWT_SECRET, users, now, req, auth,
                 jobseekers, cvs>>

\* the upload answers (fails: uploadError is set, nothing is stored)
RegisterUploadReturn(r, fails) ==
  /\ reg[r].pc = "upload"
  /\ reg' = [reg EXCEPT ![r] = Uploaded(reg[r], r, fails)]
  /\ cvs' = IF fails THEN cvs ELSE cvs \cup {FileName(reg[r].body.telegramId, r)}
  /\ UNCHANGED <<rev, TELEGRAM_BOT_TOKEN, JWT_SECRET, users, now, req, auth,
                 jobseekers>>

\* the query answers (fails: fetchError is set)
RegisterCheckReturn(r, fails) ==
  /\ reg[r].pc = "check"
  /\ reg' = [reg EXCEPT ![r] = Checked(reg[r], jobseekers, fails)]
  /\ UNCHANGED <<rev, TELEGRAM_BOT_TOKEN, JWT_SECRET, users, now, req, auth,
                 jobseekers, cvs>>

\* the insert answers (fails: insertError is set, no row is added); the row
\* goes to the jobseekers table, which is the login's directory in part_000
RegisterInsertReturn(r, fails) ==
  /\ reg[r].pc = "insert"
  /\ reg' = [reg EXCEPT ![r] = Inserted(reg[r], jobseekers, fails)]
  /\ jobseekers' = IF fails THEN jobseekers
                   ELSE Append(jobseekers, JobSeekerRow(jobseekers, reg[r]))
  /\ UNCHANGED <<rev, TELEGRAM_BOT_TOKEN, JWT_SECRET, users, now, req, auth, cvs>>

\* a body with the given telegram id, email, CV and career questions
RegisterBody(telegramId, email, cv, careerQuestions) ==
  [NoBody EXCEPT !.telegramId = telegramId, !.email = email, !.cv = cv,
                 !.careerQuestions = careerQuestions, !.phoneNumber = "1",
                 !.firstName = "A", !.lastName = "L", !.dateOfBirth = "2000-01-01"]

\* the bodies the clients of the registration send
RegisterBodies ==
  { RegisterBody("7", "a@x", TRUE, Undefined),
    RegisterBody("7", "b@x", FALSE, Str("{}")),
    RegisterBody("123", "a@x", FALSE, Undefined),
    RegisterBody("123", "c@x", TRUE, Str("{bad")) }

(***************************************************************************)
(* The clients: how the Telegram platform signs a payload and how the Mini *)
(* App sends it.  A payload is a sequence of <<name, value>> pairs.        *)
(***************************************************************************)
EscapeTable ==
  [c \in {"%", "&", "+", "="} |->
     CASE c = "%" -> "%25" [] c = "&" -> "%26" [] c = "+" -> "%2B" [] c = "=" -> "%3D"]

RECURSIVE PercentEncode(_)
PercentEncode(s) ==
  LET i == FirstOf(s, DOMAIN EscapeTable)
  IN IF i = 0 THEN s
     ELSE SubSeq(s, 1, i - 1) \o EscapeTable[CharAt(s, i)]
          \o PercentEncode(SubSeq(s, i + 1, Len(s)))

\* the initData string of a payload
InitDataOf(pairs) ==
  Join([i \in 1..Len(pairs) |->
          PercentEncode(pairs[i][1]) \o "=" \o PercentEncode(pairs[i][2])], "&")

\* the data-check-string of a sender that orders the fields as this server
\* does: the fields other than hash as name=value lines, ordered by name as
\* localeCompare orders them
TelegramCheckString(fields) ==
  Join(RenderEntries(StableSort("localeCompare",
                                SelectSeq(fields, LAMBDA f : f[1] # "hash"))), "\n")

\* the hash of that sender: the hex HMAC of the data-check-string under the
\* HMAC of the bot token keyed by "WebAppData"
TelegramHash(fields, botToken) ==
  DigestHex(createHmac(createHmac("WebAppData", botToken), TelegramCheckString(fields)))

\* the hash of a sender that orders the fields by the code units of their
\* names, under the same keys
PlatformHash(fields, botToken) ==
  DigestHex(createHmac(createHmac("WebAppData", botToken),
    Join(RenderEntries(StableSort("bytes", SelectSeq(fields, LAMBDA f : f[1] # "hash"))),
         "\n")))

\* the hash of the algorithm as the specification documents it: the fields
\* ordered by the bytes of their names, and the first HMAC keyed by the
\* issuer secret over the message "WebAppData"
DocumentedHash(fields, issuerSecret) ==
  DigestHex(createHmac(createHmac(issuerSecret, "WebAppData"),
    Join(RenderEntries(StableSort("bytes", SelectSeq(fields, LAMBDA f : f[1] # "hash"))),
         "\n")))

\* a payload with its hash appended
Signed(fields, botToken) == Append(fields, <<"hash", TelegramHash(fields, botToken)>>)

BotToken == "botsecret"

UserText(id, first, last) ==
  JsonStringify(Obj([n \in {"id", "first_name", "last_name"} |->
    CASE n = "id" -> Num(id) [] n = "first_name" -> Str(first) [] n = "last_name" -> Str(last)]))

FieldsOf(userText) == <<<<"auth_date", "17">>, <<"user", userText>>>>

\* the request bodies of the clients of the server
MainBodies ==
  { Undefined,
    Str(InitDataOf(Signed(FieldsOf(UserText(7, "Ada", "L")), BotToken))),
    Str(InitDataOf(Signed(FieldsOf(UserText(123, "Ada", "L")), BotToken))),
    Str(InitDataOf(Signed(FieldsOf("{}"), BotToken))),
    Str(InitDataOf(Signed(FieldsOf(JsonStringify(Obj([n \in {"id"} |-> Num(7)]))),
                          BotToken))),
    Str(InitDataOf(FieldsOf(UserText(7, "Ada", "L")))),
    Str(InitDataOf(Append(FieldsOf(UserText(7, "Ada", "L")), <<"hash", "hex00">>))) }

\* the tables the directory may hold when the server starts: none, or the
\* user with telegram id 123
StoredUser(rv) ==
  CreatedRow(rv, <<>>, Obj([n \in {"id", "first_name", "last_name"} |->
    CASE n = "id" -> Num(123) [] n = "first_name" -> Str("Ada") [] n = "last_name" -> Str("L")]))

InitialTables(rv) == { <<>>, <<StoredUser(rv)>> }

Init ==
  /\ rev \in Revisions
  /\ TELEGRAM_BOT_TOKEN \in {Undefined, Str(BotToken)}
  /\ JWT_SECRET \in {Undefined, Str("jwtsecret")}
  /\ \E table \in InitialTables(rev) :
       /\ users = (IF UsesAuthUsers(rev) THEN table ELSE <<>>)
       /\ jobseekers = (IF UsesAuthUsers(rev) THEN <<>> ELSE table)
  /\ now = 0
  /\ req = [r \in Reqs |-> IdleReq]
  /\ auth = NoAuth
  /\ reg = [r \in Reqs |-> IdleReg]
  /\ cvs = {}

(***************************************************************************)
(* The inputs of the verifier: every payload of at most MaxFields fields,  *)
(* in every order, with repeated names, without a hash or with the hash    *)
(* pairs of HashPairs.                                                     *)
(***************************************************************************)
FieldPairs ==
  { <<"user", UserText(7, "Ada", "L")>>, <<"user", "{}">>, <<"user", "{bad">>,
    <<"auth_date", "17">>, <<"Zone", "AA">> }

RECURSIVE SeqsUpTo(_, _)
\* the sequences over S of length at most n
SeqsUpTo(S, n) ==
  IF n = 0 THEN {<<>>}
  ELSE SeqsUpTo(S, n - 1)
       \cup { Append(q, x) : q \in { t \in SeqsUpTo(S, n - 1) : Len(t) = n - 1 }, x \in S }

\* a hash without its last character
Truncated(hash) == SubSeq(hash, 1, Len(hash) - 1)

\* the hash pairs a sender may add to the fields: none, the platform's hash
\* under the server's bot token or under another one, a truncated hash, an
\* empty hash, and two hash pairs of which one is the platform's
HashPairs(fields) ==
  LET good == <<"hash", TelegramHash(fields, BotToken)>>
      other == <<"hash", TelegramHash(fields, "othersecret")>>
      cut == <<"hash", Truncated(TelegramHash(fields, BotToken))>>
      doc == <<"hash", DocumentedHash(fields, BotToken)>>
      bytes == <<"hash", PlatformHash(fields, BotToken)>>
  IN { <<>>, <<good>>, <<other>>, <<cut>>, <<doc>>, <<bytes>>, <<<<"hash", "">>>>,
       <<good, cut>>, <<cut, good>> }

VerifierPayloads ==
  UNION { { fields \o h : h \in HashPairs(fields) } \cup
          { h \o fields : h \in {<<<<"hash", TelegramHash(fields, BotToken)>>>>} } :
          fields \in SeqsUpTo(FieldPairs, MaxFields) }

\* a request with a payload of VerifierPayloads is on its way to the server
InitVerify ==
  /\ rev \in Revisions
  /\ TELEGRAM_BOT_TOKEN = Str(BotToken)
  /\ JWT_SECRET = Str("jwtsecret")
  /\ users = <<>>
  /\ now = 0
  /\ auth = NoAuth
  /\ reg = [r \in Reqs |-> IdleReg]
  /\ jobseekers = <<>>
  /\ cvs = {}
  /\ \E p \in VerifierPayloads :
       req = [r \in Reqs |-> IF r = 1 THEN [IdleReq EXCEPT !.initData = Str(InitDataOf(p))]
                             ELSE IdleReq]

\* the request is handled
NextVerify ==
  \/ LoginReceive(1, req[1].initData)
  \/ \E fails \in BOOLEAN : LoginLookupReturn(1, fails)
  \/ \E fails \in BOOLEAN : LoginCreateReturn(1, fails)

SpecVerify == InitVerify /\ [][NextVerify]_vars

\* concurrent login requests
Next ==
  \/ \E r \in Reqs, d \in MainBodies : LoginReceive(r, d)
  \/ \E r \in Reqs, fails \in BOOLEAN : LoginLookupReturn(r, fails)
  \/ \E r \in Reqs, fails \in BOOLEAN : LoginCreateReturn(r, fails)

Spec == Init /\ [][Next]_vars

\* one login, protected requests and the passing of time
NextSession ==
  \/ \E d \in MainBodies : LoginReceive(1, d)
  \/ \E fails \in BOOLEAN : LoginLookupReturn(1, fails)
  \/ \E fails \in BOOLEAN : LoginCreateReturn(1, fails)
  \/ \E h \in Headers : Protected(h)
  \/ \E fails \in BOOLEAN : ProfileReturn(fails)
  \/ Tick

SpecSession == Init /\ [][NextSession]_vars

\* the header Authorization: Bearer <token>
BearerHeader(token) == Header(<<Str("Bearer"), token>>)

\* the logins of the users 7 and 123
LifetimeLogins ==
  { Str(InitDataOf(Signed(FieldsOf(UserText(7, "Ada", "L")), BotToken))),
    Str(InitDataOf(Signed(FieldsOf(UserText(123, "Ada", "L")), BotToken))) }

\* the server with both secrets set, at day 0
InitLifetime ==
  /\ rev \in Revisions
  /\ TELEGRAM_BOT_TOKEN = Str(BotToken)
  /\ JWT_SECRET = Str("jwtsecret")
  /\ users = <<>>
  /\ now = 0
  /\ req = [r \in Reqs |-> IdleReq]
  /\ auth = NoAuth
  /\ reg = [r \in Reqs |-> IdleReg]
  /\ jobseekers = <<>>
  /\ cvs = {}

\* the life of the tokens: the logins of the requests 1 and 2, the
\* registration of request 1, which fill the directory and the jobseekers
\* table, protected requests carrying the tokens handed out, and the passing
\* of time
NextLifetime ==
  \/ \E r \in {1, 2}, d \in LifetimeLogins : LoginReceive(r, d)
  \/ \E r \in {1, 2}, fails \in BOOLEAN : LoginLookupReturn(r, fails)
  \/ \E r \in {1, 2}, fails \in BOOLEAN : LoginCreateReturn(r, fails)
  \/ RegisterReceive(1, RegisterBody("7", "b@x", FALSE, Undefined))
  \/ \E fails \in BOOLEAN : RegisterCheckReturn(1, fails)
  \/ \E fails \in BOOLEAN : RegisterInsertReturn(1, fails)
  \/ \E token \in IssuedTokens : Protected(BearerHeader(token))
  \/ \E fails \in BOOLEAN : ProfileReturn(fails)
  \/ Tick

SpecLifetime == InitLifetime /\ [][NextLifetime]_vars

(***************************************************************************)
(* Properties of the verifier, checked under SpecVerify.                   *)
(***************************************************************************)
\* the handler has run the verifier on the request and stands at its first
\* await, or has answered before it
Handled ==
  \/ req[1].pc = "lookup"
  \/ req[1].pc = "done" /\ req[1].lookups = 0

\* the pairs of the payload request 1 carries, and the verifier's result on it
SentPairs == URLSearchParams(req[1].initData.v)
SentResult == validateTelegramData(req[1].initData.v, TELEGRAM_BOT_TOKEN)

HasPair(pairs, name) == \E i \in 1..Len(pairs) : pairs[i][1] = name
FirstIndex(pairs, name) == SetMin({ i \in 1..Len(pairs) : pairs[i][1] = name })
FirstValue(pairs, name) == pairs[FirstIndex(pairs, name)][2]
FieldsIn(pairs) == SelectSeq(pairs, LAMBDA f : f[1] # "hash")

\* the texts of the parsable user records, and the record a text embeds
RecordTexts == { JsonStringify(u) : u \in UserRecords }
EmbeddedIdentity(text) == CHOOSE u \in UserRecords : JsonStringify(u) = text

\* the first user field of the payload is a parsable record
UserIsRecord(pairs) == HasPair(pairs, "user") /\ FirstValue(pairs, "user") \in RecordTexts

\* the verifier returns the identity the first user field embeds, and the
\* handler goes on with it
ReturnsIdentity(pairs) ==
  /\ SentResult = [exit |-> "Parsed", val |-> EmbeddedIdentity(FirstValue(pairs, "user"))]
  /\ req[1].res.status # 403
  /\ "id" \in DOMAIN SentResult.val.v =>
       req[1].userData = EmbeddedIdentity(FirstValue(pairs, "user"))

\* C1 as stated: a payload whose hash is the one of the documented algorithm
\* (first HMAC keyed by the issuer secret over "WebAppData") under the
\* verifier's secret, and whose user field is a parsable record, verifies
\* and yields the embedded identity.
C1_DocumentedHashVerifies ==
  (/\ Handled
   /\ HasPair(SentPairs, "hash")
   /\ FirstValue(SentPairs, "hash") = DocumentedHash(FieldsIn(SentPairs), TELEGRAM_BOT_TOKEN.v)
   /\ UserIsRecord(SentPairs))
  => ReturnsIdentity(SentPairs)

\* the payload with the value of pair i replaced
ReplaceAt(pairs, i, value) == [pairs EXCEPT ![i] = <<pairs[i][1], value>>]

\* the verifier rejects the payload through the given exit, and the login
\* request answers 403 without a token
RejectedBy(pairs, exit) ==
  /\ validateTelegramData(InitDataOf(pairs), TELEGRAM_BOT_TOKEN) = [exit |-> exit, val |-> Null]
  /\ LoginEntry(rev, TELEGRAM_BOT_TOKEN, JWT_SECRET, Str(InitDataOf(pairs)))
       = [pc |-> "done", res |-> Response(403, "Invalid Telegram data"),
          userData |-> Undefined]

\* the values a field may be changed to, and the hashes a hash may be
\* changed to
ChangedValues == {"18", "{}", UserText(123, "Ada", "L")}
ChangedHashes(pairs) ==
  { Truncated(FirstValue(pairs, "hash")), FirstValue(pairs, "hash") \o "0",
    TelegramHash(FieldsIn(pairs), "othersecret"), "" }

\* C2 as stated: when a payload verifies, the payload with the value of one
\* field changed, or with the received hash changed in length or content, is
\* rejected as a signature mismatch, the verifier returns null and the login
\* request answers 403 without a token.
C2_ChangeIsSignatureMismatch ==
  (Handled /\ SentResult.exit = "Parsed" /\ ~Falsy(SentResult.val)) =>
    /\ \A i \in 1..Len(SentPairs), v \in ChangedValues :
         (SentPairs[i][1] # "hash" /\ v # SentPairs[i][2])
           => RejectedBy(ReplaceAt(SentPairs, i, v), "SignatureMismatch")
    /\ \A h \in ChangedHashes(SentPairs) :
         RejectedBy(ReplaceAt(SentPairs, FirstIndex(SentPairs, "hash"), h),
                    "SignatureMismatch")

\* C2 amended: when a payload verifies, the payload with the value of one
\* field changed, or with the received hash changed in length or content, is
\* rejected: as a signature mismatch when the changed hash is not empty, as
\* a missing hash when the hash is emptied; in both cases the verifier
\* returns null and the login request answers 403 without a token.
C2_ChangeInvalidates ==
  (Handled /\ SentResult.exit = "Parsed" /\ ~Falsy(SentResult.val)) =>
    /\ \A i \in 1..Len(SentPairs), v \in ChangedValues :
         (SentPairs[i][1] # "hash" /\ v # SentPairs[i][2])
           => RejectedBy(ReplaceAt(SentPairs, i, v), "SignatureMismatch")
    /\ \A h \in ChangedHashes(SentPairs) :
         RejectedBy(ReplaceAt(SentPairs, FirstIndex(SentPairs, "hash"), h),
                    IF h = "" THEN "MissingHash" ELSE "SignatureMismatch")

\* a verifying payload of two fields was handled
C2_Witness ==
  /\ Handled /\ SentResult.exit = "Parsed" /\ ~Falsy(SentResult.val)
  /\ Len(FieldsIn(SentPairs)) = 2
  /\ req[1].res.status # 403

\* the orderings of a sequence
Orderings(seq) ==
  { [i \in 1..Len(seq) |-> seq[f[i]]] :
      f \in { g \in [1..Len(seq) -> 1..Len(seq)] :
                \A i, j \in 1..Len(seq) : g[i] = g[j] => i = j } }

\* the check-string the verifier builds from a raw payload
CheckStringOf(initData) == dataCheckString(ParamsDelete(URLSearchParams(initData), "hash"))

\* every ordering of the pairs gives the check-string and the verdict of
\* the payload that was sent
OrderIndependent(pairs) ==
  \A q \in Orderings(pairs) :
    /\ CheckStringOf(InitDataOf(q)) = CheckStringOf(InitDataOf(pairs))
    /\ validateTelegramData(InitDataOf(q), TELEGRAM_BOT_TOKEN) = SentResult

\* C3 as stated: the check-string and the verdict are the same for every
\* ordering of the pairs of a payload, also when a name occurs more than once.
C3_AnyOrderSameVerdict == Handled => OrderIndependent(SentPairs)

\* no two pairs of the payload have names that localeCompare finds equal
NamesDiffer(pairs) ==
  \A i, j \in 1..Len(pairs) : i # j => localeCompare(pairs[i][1], pairs[j][1]) # 0

\* C3 amended: the check-string and the verdict are the same for every
\* ordering of the pairs of a payload in which no two names compare equal
\* (in particular no name occurs twice).
C3_DistinctNamesSameVerdict ==
  (Handled /\ NamesDiffer(SentPairs)) => OrderIndependent(SentPairs)

\* a verifying payload whose pairs were not sent in sorted order was handled
C3_Witness ==
  /\ req[1].pc = "lookup"
  /\ NamesDiffer(SentPairs)
  /\ Len(SentPairs) = 3
  /\ SortEntries(FieldsIn(SentPairs)) # FieldsIn(SentPairs)

\* the failure kind of a payload: the exit the verifier rejects it by
KindOf(initData) == validateTelegramData(initData, TELEGRAM_BOT_TOKEN).exit

\* one payload of each failure kind
KindSamples ==
  { InitDataOf(FieldsOf("{}")),
    InitDataOf(Append(FieldsOf("{}"), <<"hash", "hex00">>)),
    InitDataOf(Signed(<<<<"auth_date", "17">>>>, BotToken)) }

\* C4: the login responses to payloads of different failure kinds
\* (MissingHash, SignatureMismatch, MalformedClaim) differ.
C4_FailureKindsDistinct ==
  (Handled /\ SentResult.exit \in {"MissingHash", "SignatureMismatch", "MalformedClaim"}) =>
    \A other \in KindSamples :
      KindOf(other) # SentResult.exit =>
        LoginEntry(rev, TELEGRAM_BOT_TOKEN, JWT_SECRET, Str(other)).res # req[1].res

(***************************************************************************)
(* Properties of the tokens and of the authenticator, checked under        *)
(* SpecSession.                                                            *)
(***************************************************************************)
\* the token the login of request 1 was answered with
Issued == req[1].res.token
HasIssued == Issued.t = "jwt"

\* the header is Bearer followed by the word w
IsBearer(h, w) == h.t = "header" /\ Len(h.v) = 2 /\ h.v[1] = Str("Bearer") /\ h.v[2] = w

\* the header has the form Bearer <non-empty token>
WellFormedBearer(h) ==
  h.t = "header" /\ Len(h.v) = 2 /\ h.v[1] = Str("Bearer") /\ ~WordFalsy(h.v[2])

\* the record the resolved user's identity is read from
Holder(rv, user) == IF UsesAuthUsers(rv) THEN Get(user, "user_metadata") ELSE user

\* the authenticator passed the request, without an error response, with
\* the externalId and displayName of the user the login resolved
AnsweredWithIdentity(result) ==
  /\ result.passed /\ result.status \in {0, 200} /\ result.error = ""
  /\ Get(result.user, "telegram_id") = Get(Holder(rev, req[1].user), "telegram_id")
  /\ Get(result.user, "name") = DisplayName(Holder(rev, req[1].user))

\* the authenticator answered InvalidToken
AnsweredInvalid(result) ==
  ~result.passed /\ result.status = 403 /\ result.user = Undefined

\* C5: a token authenticated at the instant it was issued yields the
\* telegram_id and name of the resolved user under the secret it was signed
\* with, and InvalidToken under every other secret; a token signed with a
\* secret the server does not hold is answered InvalidToken.
C5_IssueThenAuthenticate ==
  /\ (HasIssued /\ IsBearer(auth.header, Issued) /\ now = Issued.v.iat)
       => AnsweredWithIdentity(auth.result)
  /\ HasIssued =>
       \A rv \in {RevIndex, RevPart1}, B \in {"jwtsecret", "othersecret", "jwtsecret2"} :
         LET result == Authenticate(rv, Header(<<Str("Bearer"), Issued>>), Str(B),
                                    Issued.v.iat)
         IN IF B = Issued.v.key THEN AnsweredWithIdentity(result)
            ELSE AnsweredInvalid(result)
  /\ (IsBearer(auth.header, ForeignToken) /\ auth.pc # "idle")
       => AnsweredInvalid(auth.result)

\* the issued token was presented on the day of its issuance and the
\* handler ran with the user's identity
C5_Witness ==
  /\ HasIssued /\ IsBearer(auth.header, Issued) /\ now = Issued.v.iat
  /\ auth.result.passed
  /\ Get(auth.result.user, "telegram_id") = Str("7")
  /\ Get(auth.result.user, "name") = Str("Ada L")

\* C6: the authenticator answers 401 exactly when the header is absent or
\* not of the form Bearer <non-empty token>, 403 only for a well-formed
\* Bearer header, and lets the handler run, with the decoded identity, only
\* for a well-formed Bearer header whose token carries the server's
\* signature.
C6_NoTokenExactlyWhenMalformed ==
  auth.pc # "idle" =>
    /\ auth.result.status = 401 <=> ~WellFormedBearer(auth.header)
    /\ auth.result.status = 403 => WellFormedBearer(auth.header)
    /\ auth.result.passed =>
         /\ WellFormedBearer(auth.header)
         /\ auth.header.v[2].t = "jwt"
         /\ auth.header.v[2].v.key = JWT_SECRET.v
         /\ auth.result.user = Decoded(auth.header.v[2])

\* the step is one of another operation than the clock and the protected
\* request: a step of a login or of a registration
OtherOperation == req' # req \/ reg' # reg \/ users' # users \/ jobseekers' # jobseekers

\* C7: whatever logins, registrations and changes of the directory have
\* happened, a protected request that carries a token this server issued
\* passes with the token's claims exactly when fewer than seven days have
\* gone by since the issuance and is answered InvalidToken otherwise; no
\* step takes a token back or changes it, and no step of a login or of a
\* registration changes the answer a token would get.
C7_ValidForSevenDays ==
  [][\A token \in IssuedTokens :
       /\ Protected(BearerHeader(token)) =>
            IF now < token.v.iat + ExpiresIn
            THEN auth'.result.passed /\ auth'.result.user = Decoded(token)
            ELSE AnsweredInvalid(auth'.result)
       /\ token \in IssuedTokens'
       /\ OtherOperation =>
            Authenticate(rev', BearerHeader(token), JWT_SECRET', now')
              = Authenticate(rev, BearerHeader(token), JWT_SECRET, now)]_vars

\* the token of request 1 was rejected on the seventh day after its issuance
\* or later, while the login of request 2 had been answered, after that
\* issuance, with a token still valid for a user it created, and the
\* registration had been inserted
C7_Witness ==
  /\ HasIssued /\ IsBearer(auth.header, Issued)
  /\ now >= Issued.v.iat + ExpiresIn
  /\ auth.result.status = 403
  /\ req[2].res.token.t = "jwt" /\ req[2].creates = 1
  /\ req[2].res.token.v.iat > Issued.v.iat
  /\ req[2].res.token.v.exp > now
  /\ reg[1].status = 201

\* C8: when a secret is absent, a login with initData, and a protected
\* request with a Bearer token, is answered with a 500-class error, and the
\* login creates no user.
C8_MissingSecretIsConfigError ==
  /\ (/\ Falsy(TELEGRAM_BOT_TOKEN) \/ Falsy(JWT_SECRET)
      /\ ~Falsy(req[1].initData))
       => /\ req[1].creates = 0
          /\ req[1].pc = "done" => req[1].res.status = 500
  /\ (Falsy(JWT_SECRET) /\ WellFormedBearer(auth.header) /\ auth.pc # "idle")
       => auth.result.status = 500

(***************************************************************************)
(* Properties of the login requests and the user directory, checked under  *)
(* Spec.                                                                   *)
(***************************************************************************)
\* the request has ended with an error response and without a token
EndedInError(q) ==
  q.pc = "done" /\ q.res.status >= 500 /\ q.res.token = Undefined

\* C9: a step in which the lookup or the creation of a login request fails
\* ends the request with an error response and no token, and no further
\* directory call is made for it.
C9_DirectoryFailureEndsRequest ==
  [][\A r \in Reqs :
       /\ LoginLookupReturn(r, TRUE) =>
            /\ EndedInError(req'[r])
            /\ req'[r].creates = req[r].creates
       /\ LoginCreateReturn(r, TRUE) =>
            /\ EndedInError(req'[r])
            /\ req'[r].lookups = req[r].lookups /\ req'[r].creates = req[r].creates]_vars

\* the text of the telegram id the request was verified for
OwnId(q) == ToStr(Get(q.userData, "id"))

\* C10: under every interleaving a login request makes no lookup before its
\* payload verifies and one lookup after, makes at most one createUser call
\* and only in the step in which its own lookup answered without a user,
\* changes no other request, and is answered with the token issued for the
\* user record the directory returned to it, which carries the telegram id
\* of its own payload.
C10_RequestsIndependent ==
  [][\A r \in Reqs :
       /\ req'[r].lookups = (IF req'[r].userData = Undefined THEN 0 ELSE 1)
       /\ req'[r].creates <= 1
       /\ req'[r].creates # req[r].creates =>
            req[r].pc = "lookup" /\ req'[r].pc = "create"
       /\ \A fails \in BOOLEAN :
            (LoginLookupReturn(r, fails) /\ req'[r].creates # req[r].creates)
              => Falsy(LookupData(rev, DirectoryTable(rev, users, jobseekers),
                                  OwnId(req[r]), fails))
       /\ req'[r] # req[r] => \A q \in Reqs \ {r} : req'[q] = req[q]
       /\ req'[r].res.token # Undefined =>
            /\ req'[r].res = IssueToken(rev, req'[r].user, JWT_SECRET, now)
            /\ Get(Holder(rev, req'[r].user), "telegram_id") = Str(OwnId(req'[r]))
            /\ req'[r].res.token.v.claims.telegram_id = Str(OwnId(req'[r]))]_vars

\* two first logins for the same telegram id have both called createUser
\* and both were answered with a token
C10_Witness ==
  /\ req[1].creates = 1 /\ req[2].creates = 1
  /\ OwnId(req[1]) = OwnId(req[2])
  /\ req[1].res.token # Undefined /\ req[2].res.token # Undefined
  /\ Len(DirectoryTable(rev, users, jobseekers)) >= 2

(***************************************************************************)
(* Properties of the order of the steps of a login request, stated for     *)
(* SpecVerify.                                                             *)
(***************************************************************************)
\* the verifier passed: it returned a value the handler takes for user data
VerifierPassed(v) == v.exit = "Parsed" /\ ~Falsy(v.val)

\* C11: the steps of a login request happen in the order verify, lookup or
\* create, token, response: the lookup is sent only in the step in which
\* the verifier passed, createUser is called only from the answered lookup,
\* a token is signed only after the directory yielded a user and ends the
\* request, a request whose verification failed is rejected (403, or 400
\* when the payload is empty) without a directory call or token, and an
\* answered request does nothing more.
C11_StepsInOrder ==
  [][/\ (req[1].pc = "idle" /\ req'[1].pc # "idle") =>
          LET v == validateTelegramData(req'[1].initData.v, TELEGRAM_BOT_TOKEN)
          IN /\ req'[1].lookups = 1 => VerifierPassed(v)
             /\ (v.exit # "Throw" /\ ~VerifierPassed(v)) =>
                  /\ req'[1].pc = "done"
                  /\ req'[1].res = (IF Falsy(req'[1].initData)
                                    THEN Response(400, "Missing initData")
                                    ELSE Response(403, "Invalid Telegram data"))
                  /\ req'[1].lookups = 0 /\ req'[1].creates = 0
     /\ req'[1].lookups # req[1].lookups => req[1].pc = "idle"
     /\ req'[1].creates # req[1].creates => req[1].pc = "lookup"
     /\ req'[1].res.token # req[1].res.token =>
          /\ req[1].pc \in {"lookup", "create"} /\ req'[1].pc = "done"
          /\ req[1].lookups = 1
          /\ ~Falsy(req'[1].user)
     /\ req[1].pc = "done" => req'[1] = req[1]]_vars

\* a request went through verification, lookup and creation and was
\* answered with a token
C11_Witness ==
  /\ req[1].pc = "done" /\ req[1].res.token # Undefined
  /\ req[1].lookups = 1 /\ req[1].creates = 1

(***************************************************************************)
(* Properties of the check-string, stated for SpecVerify.                  *)
(***************************************************************************)
\* the check-string of the specification: the pairs other than hash, ordered
\* by the code units of their names, as name=value lines
ByteOrderedCheckString(pairs) ==
  Join(RenderEntries(StableSort("bytes", FieldsIn(pairs))), "\n")

\* C12: the check-string the verifier builds is made of every pair of the
\* payload except the hash pairs, ordered by the bytes of their names, each
\* rendered name=value, joined by single newlines; a payload hashed over
\* that string under the server's keys is not rejected at the comparison.
C12_CheckStringByteOrdered ==
  Handled =>
    /\ CheckStringOf(req[1].initData.v) = ByteOrderedCheckString(SentPairs)
    /\ (/\ HasPair(SentPairs, "hash")
        /\ FirstValue(SentPairs, "hash")
             = PlatformHash(FieldsIn(SentPairs), TELEGRAM_BOT_TOKEN.v))
         => SentResult.exit # "SignatureMismatch"


\* the lines of a check-string that render the name
LinesOf(checkString, name) ==
  SelectSeq(Split(checkString, "\n"),
            LAMBDA l : Len(l) > Len(name) /\ SubSeq(l, 1, Len(name) + 1) = name \o "=")

\* the pairs of the payload with the name, rendered, in the order sent
SentLines(pairs, name) == RenderEntries(SelectSeq(pairs, LAMBDA f : f[1] = name))

LastValue(pairs, name) ==
  pairs[CHOOSE i \in 1..Len(pairs) :
          pairs[i][1] = name /\ \A j \in i + 1..Len(pairs) : pairs[j][1] # name][2]

\* the names of the fields of the payload
FieldNames(pairs) == { FieldsIn(pairs)[i][1] : i \in 1..Len(FieldsIn(pairs)) }

\* C13 as stated: of the pairs with one name only the last enters the
\* check-string, and the identity is parsed from the last user pair.
C13_LastOccurrenceWins ==
  Handled =>
    /\ \A name \in FieldNames(SentPairs) :
         LinesOf(CheckStringOf(req[1].initData.v), name)
           = <<name \o "=" \o LastValue(SentPairs, name)>>
    /\ SentResult.exit = "Parsed" =>
         SentResult.val = JSON_parse(LastValue(SentPairs, "user")).val

\* C13 amended: every pair with a repeated name enters the check-string, in
\* the order sent, and the identity is parsed from the first user pair, the
\* hash compared is the first hash pair; the result is a function of the
\* payload, the same in every revision.
C13_AllOccurrencesFirstParsed ==
  Handled =>
    /\ \A name \in FieldNames(SentPairs) :
         LinesOf(CheckStringOf(req[1].initData.v), name) = SentLines(SentPairs, name)
    /\ SentResult.exit = "Parsed" =>
         /\ SentResult.val = JSON_parse(FirstValue(SentPairs, "user")).val
         /\ FirstValue(SentPairs, "hash")
              = TelegramHash(FieldsIn(SentPairs), TELEGRAM_BOT_TOKEN.v)
    /\ \A rv \in Revisions :
         LoginEntry(rv, TELEGRAM_BOT_TOKEN, JWT_SECRET, req[1].initData).userData
           = (IF req[1].pc = "lookup" THEN SentResult.val ELSE Undefined)

\* a verifying payload with two different user pairs was handled and the
\* identity of the first went on to the lookup
C13_Witness ==
  /\ req[1].pc = "lookup"
  /\ Len(SentLines(SentPairs, "user")) = 2
  /\ FirstValue(SentPairs, "user") # LastValue(SentPairs, "user")
  /\ req[1].userData = JSON_parse(FirstValue(SentPairs, "user")).val


(***************************************************************************)
(* Properties of the claims of the token and of the responses, stated for  *)
(* Spec.                                                                   *)
(***************************************************************************)
\* the text of a name, empty when the name is absent
NameText(x) == IF LooseNull(x) THEN "" ELSE ToStr(x)

\* the trimmed concatenation of the first and the last name of a user
TrimmedFullName(holder) ==
  Trim(NameText(Get(holder, "first_name")) \o " " \o NameText(Get(holder, "last_name")))

\* C14: the name claim of every issued token is the trimmed concatenation
\* of the first and last name of the resolved user, where an absent name
\* counts as empty, so that it is the empty string when both are absent.
C14_NameIsTrimmedFullName ==
  \A r \in Reqs :
    req[r].res.token # Undefined =>
      req[r].res.token.v.claims.name = Str(TrimmedFullName(Holder(rev, req[r].user)))


\* C15: with both secrets configured, a login request that ends before the
\* directory is contacted, that is because of its payload alone, is not
\* answered with a 500-class response.
C15_NoServerErrorFromPayload ==
  (~Falsy(TELEGRAM_BOT_TOKEN) /\ ~Falsy(JWT_SECRET)) =>
    \A r \in Reqs :
      (req[r].pc = "done" /\ req[r].lookups = 0) => req[r].res.status < 500


(***************************************************************************)
(* Properties of the registration, stated for SpecRegister.                *)
(***************************************************************************)
\* the login the clients of the registration also send
RegisterLogin == Str(InitDataOf(Signed(FieldsOf(UserText(7, "Ada", "L")), BotToken)))

\* the server with empty tables
InitRegister ==
  /\ rev \in Revisions
  /\ TELEGRAM_BOT_TOKEN = Str(BotToken)
  /\ JWT_SECRET = Str("jwtsecret")
  /\ users = <<>>
  /\ now = 0
  /\ req = [r \in Reqs |-> IdleReq]
  /\ auth = NoAuth
  /\ reg = [r \in Reqs |-> IdleReg]
  /\ jobseekers = <<>>
  /\ cvs = {}

\* concurrent registration requests, and logins of the user 7 among them
NextRegister ==
  \/ \E r \in Reqs, body \in RegisterBodies : RegisterReceive(r, body)
  \/ \E r \in Reqs, fails \in BOOLEAN : RegisterUploadReturn(r, fails)
  \/ \E r \in Reqs, fails \in BOOLEAN : RegisterCheckReturn(r, fails)
  \/ \E r \in Reqs, fails \in BOOLEAN : RegisterInsertReturn(r, fails)
  \/ \E r \in Reqs : LoginReceive(r, RegisterLogin)
  \/ \E r \in Reqs, fails \in BOOLEAN : LoginLookupReturn(r, fails)
  \/ \E r \in Reqs, fails \in BOOLEAN : LoginCreateReturn(r, fails)

SpecRegister == InitRegister /\ [][NextRegister]_vars

\* C16: the rows the registrations inserted never share a telegram id or an
\* email, and a registration answered 409 has inserted no row and left no CV
\* in the object store.
C16_UniqueRowsAndClean409 ==
  /\ \A r, q \in Reqs :
       (r # q /\ reg[r].status = 201 /\ reg[q].status = 201) =>
          /\ Get(reg[r].jobSeeker, "telegram_id") # Get(reg[q].jobSeeker, "telegram_id")
          /\ Get(reg[r].jobSeeker, "email") # Get(reg[q].jobSeeker, "email")
  /\ \A r \in Reqs :
       reg[r].status = 409 =>
         /\ reg[r].jobSeeker = Undefined
         /\ \A i \in 1..Len(jobseekers) :
              Get(jobseekers[i], "cv_url") # Str(PublicUrl(FileName(reg[r].body.telegramId, r)))
         /\ FileName(reg[r].body.telegramId, r) \notin cvs

====
